---- MODULE Spec2Model ----
(***************************************************************************)
(* Model of the Math_Quiz_AI service (src/main.py): the Question           *)
(* validator, the text parser parse_questions_from_text, the JSON store    *)
(* loader, the selector select_questions and the two request handlers.     *)
(*                                                                         *)
(* Python strings are sequences of one-character strings, so that strip(), *)
(* upper(), lower() and the regular expressions are computed and not       *)
(* assumed.  A value read from JSON carries its type in a tag (field t).   *)
(***************************************************************************)
EXTENDS Integers, Sequences, FiniteSets, TLC

VARIABLES
    pc,                 \* position of the modelled run
    cand,               \* validator run: the candidate record
    verdict,            \* validator run: "none" | "accepted" | "rejected"
    src,                \* parser run: the block descriptors the text is rendered from
    text,               \* parser run: ai_generated_text
    question_blocks,    \* parser run: result of re.split
    bi,                 \* parser run: index of the next block of the for loop
    questions,          \* parser run: the list being returned
    all_quiz_questions, \* selector run: the collection given to select_questions
    num_questions,      \* selector run: the count given
    difficulty,         \* selector run: the difficulty given
    selected,           \* selector run: positions of the returned elements
    file,               \* service: the store file found at startup
    loaded_questions,   \* service: the module-level collection
    response,           \* service: outcome of the last request
    request             \* service: the last request

vars == <<pc, cand, verdict, src, text, question_blocks, bi, questions,
          all_quiz_questions, num_questions, difficulty, selected,
          file, loaded_questions, response, request>>

validatorVars == <<cand, verdict>>
parserVars    == <<src, text, question_blocks, bi, questions>>
selectorVars  == <<all_quiz_questions, num_questions, difficulty, selected>>
serviceVars   == <<file, loaded_questions, response, request>>

(***************************************************************************)
(* Characters and Python's str methods.                                    *)
(***************************************************************************)
UpperLetters == <<"A", "B", "C", "D", "E", "F", "G", "H", "I", "J", "K", "L", "M",
                  "N", "O", "P", "Q", "R", "S", "T", "U", "V", "W", "X", "Y", "Z">>
LowerLetters == <<"a", "b", "c", "d", "e", "f", "g", "h", "i", "j", "k", "l", "m",
                  "n", "o", "p", "q", "r", "s", "t", "u", "v", "w", "x", "y", "z">>

IsSpace(c) == c \in {" ", "\n", "\t", "\r"}
IsDigit(c) == c \in {"0", "1", "2", "3", "4", "5", "6", "7", "8", "9"}

\* the letters' other case, as tables
LowerOf == [c \in {UpperLetters[i] : i \in DOMAIN UpperLetters} |->
               LowerLetters[CHOOSE i \in DOMAIN UpperLetters : UpperLetters[i] = c]]
UpperOf == [c \in {LowerLetters[i] : i \in DOMAIN LowerLetters} |->
               UpperLetters[CHOOSE i \in DOMAIN LowerLetters : LowerLetters[i] = c]]

LowerChar(c) == IF c \in DOMAIN LowerOf THEN LowerOf[c] ELSE c
UpperChar(c) == IF c \in DOMAIN UpperOf THEN UpperOf[c] ELSE c

\* str.lower() and str.upper()
Lower(s) == [i \in DOMAIN s |-> LowerChar(s[i])]
Upper(s) == [i \in DOMAIN s |-> UpperChar(s[i])]

\* s[from:] for a 1-based position
Drop(s, from) == SubSeq(s, from, Len(s))

\* str.strip(): leading and trailing whitespace removed
Strip(s) ==
    LET keep == {i \in DOMAIN s : ~IsSpace(s[i])}
    IN  IF keep = {} THEN <<>>
        ELSE SubSeq(s, CHOOSE i \in keep : \A j \in keep : i <= j,
                       CHOOSE i \in keep : \A j \in keep : j <= i)

(***************************************************************************)
(* Values as json.load delivers them.                                      *)
(***************************************************************************)
Str(s)  == [t |-> "str", s |-> s]
NonStr  == [t |-> "int", s |-> <<>>]
Absent  == [t |-> "absent", s |-> <<>>]
Dict(m) == [t |-> "dict", m |-> m]
NonDict == [t |-> "int", m |-> <<>>]
NoDict  == [t |-> "absent", m |-> <<>>]

\* no record
NoCand == [question |-> Absent, options |-> NoDict, answer |-> Absent, difficulty |-> Absent]

kA == <<"A">>
kB == <<"B">>
kC == <<"C">>
kD == <<"D">>
kE == <<"E">>

(***************************************************************************)
(* class Question(BaseModel)                                               *)
(***************************************************************************)
\* valid_keys of validate_options
valid_keys == {kA, kB, kC, kD}

\* question: str = Field(..., min_length=1)
QuestionFieldOk(v) == v.t = "str" /\ Len(v.s) >= 1

\* options: dict[str, str], then validate_options
validate_options(m) ==
    /\ ~(DOMAIN m = {} \/ Cardinality(DOMAIN m) # 4)
    /\ DOMAIN m = valid_keys
    /\ \A k \in DOMAIN m : m[k].t = "str" /\ Strip(m[k].s) # <<>>

OptionsFieldOk(o) ==
    /\ o.t = "dict"
    /\ \A k \in DOMAIN o.m : o.m[k].t = "str"
    /\ validate_options(o.m)

\* validate_answer: skipped when options is not in info.data
validate_answer_no_membership(v, o) == TRUE
validate_answer(v, o) == OptionsFieldOk(o) => v \in DOMAIN o.m

\* answer: str = Field(..., min_length=1, max_length=1), then validate_answer
AnswerFieldOk(a, o) ==
    /\ a.t = "str"
    /\ Len(a.s) >= 1 /\ Len(a.s) <= 1
    /\ validate_answer(a.s, o)

\* difficulty: str = Field(..., min_length=1)
DifficultyFieldOk(v) == v.t = "str" /\ Len(v.s) >= 1

\* Question of question_data for a mapping question_data: no ValidationError
QuestionAccepts(c) ==
    /\ QuestionFieldOk(c.question)
    /\ OptionsFieldOk(c.options)
    /\ AnswerFieldOk(c.answer, c.options)
    /\ DifficultyFieldOk(c.difficulty)

\* validated_question.model_dump()
model_dump(c) ==
    [question   |-> c.question.s,
     options    |-> [k \in DOMAIN c.options.m |-> c.options.m[k].s],
     answer     |-> c.answer.s,
     difficulty |-> c.difficulty.s]

(***************************************************************************)
(* select_questions.  A returned list is modelled by the positions (in the *)
(* collection given) of its elements, in the order returned.               *)
(***************************************************************************)
\* "if difficulty:" -- None and the empty string are both false
Truthy(d) == d.t = "str" /\ d.s # <<>>

\* the comprehension of lines 233-237, as positions
MatchesCaseSensitive(q, d) == q.difficulty # <<>> /\ q.difficulty = d.s
Matches(q, d) == q.difficulty # <<>> /\ Lower(q.difficulty) = Lower(d.s)

difficulty_filtered_questions(S, d) ==
    LET Keep(i) == ~Truthy(d) \/ Matches(S[i], d)
    IN  SelectSeq([i \in 1..Len(S) |-> i], Keep)

\* random.sample(population, k): k distinct positions of the population, any order
random_sample_with_replacement(population, k) ==
    [1..k -> {population[i] : i \in DOMAIN population}]
random_sample(population, k) ==
    {smp \in [1..k -> {population[i] : i \in DOMAIN population}] :
        \A i, j \in 1..k : i # j => smp[i] # smp[j]}

\* the lists select_questions may return
select_questions(S, n, d) ==
    LET filtered == difficulty_filtered_questions(S, d)
    IN  IF Len(filtered) > n THEN random_sample(filtered, n) ELSE {filtered}

\* the collection after the call: select_questions assigns to no element of its
\* argument and calls no mutating method on it
CollectionAfterSelectPopped(S, sel) ==
    LET Kept(i) == \A j \in DOMAIN sel : sel[j] # i
        idx == SelectSeq([i \in 1..Len(S) |-> i], Kept)
    IN  [k \in 1..Len(idx) |-> S[idx[k]]]
CollectionAfterSelect(S, sel) == S

(***************************************************************************)
(* Selector run: one call of select_questions on a collection of validated *)
(* questions.                                                              *)
(***************************************************************************)
MaxQuestions == 3
MaxCount == 3

txtEasy   == <<"e", "a", "s", "y">>
txtEasyUC == <<"E", "A", "S", "Y">>
txtHard   == <<"H", "a", "r", "d">>
txtHardUC == <<"H", "A", "R", "D">>
txtMedium == <<"m", "e", "d", "i", "u", "m">>

GoodOptions == [k \in valid_keys |-> <<"x">>]

MkQuestion(q, a, d) ==
    [question |-> q, options |-> GoodOptions, answer |-> a, difficulty |-> d]

QuestionPool ==
    {MkQuestion(<<"Q", "1">>, kA, txtEasy),
     MkQuestion(<<"Q", "2">>, kB, txtHard),
     MkQuestion(<<"Q", "3">>, kD, <<"E", "a", "s", "y">>)}

DifficultyArgs ==
    {Absent, Str(<<>>), Str(txtEasy), Str(txtEasyUC), Str(txtHardUC), Str(txtMedium)}

NoResponse ==
    [status |-> 0, body |-> MkQuestion(<<>>, <<>>, <<>>), criteria |-> Absent,
     is_correct |-> FALSE, correct_answer |-> <<>>, user_answer |-> <<>>, looked_up |-> {}]
NoRequest ==
    [kind |-> "none", difficulty |-> Absent, question_index |-> 0, user_option |-> <<>>]
NoFile == [kind |-> "missing", items |-> <<>>]

InitSelector ==
    /\ pc = "select"
    /\ all_quiz_questions \in UNION {[1..n -> QuestionPool] : n \in 0..MaxQuestions}
    /\ num_questions \in 0..MaxCount
    /\ difficulty \in DifficultyArgs
    /\ selected = <<>>
    /\ cand = NoCand /\ verdict = "none"
    /\ src = <<>> /\ text = <<>> /\ question_blocks = <<>> /\ bi = 0 /\ questions = <<>>
    /\ file = NoFile /\ loaded_questions = <<>>
    /\ response = NoResponse /\ request = NoRequest

SelectQuestions ==
    /\ pc = "select"
    /\ selected' \in select_questions(all_quiz_questions, num_questions, difficulty)
    /\ all_quiz_questions' = CollectionAfterSelect(all_quiz_questions, selected')
    /\ pc' = "selected"
    /\ UNCHANGED <<num_questions, difficulty, validatorVars, parserVars, serviceVars>>

NextSelector == SelectQuestions

SpecSelector == InitSelector /\ [][NextSelector]_vars

\* the filter as the specification words it: the positions whose difficulty equals d
\* case-insensitively, all positions when d is absent
ClaimedFilter(S, d) ==
    IF d = Absent THEN DOMAIN S
    ELSE {i \in DOMAIN S : Lower(S[i].difficulty) = Lower(d.s)}

\* the same, an empty d counting as absent
ClaimedFilterEmptyAbsent(S, d) ==
    IF d = Absent \/ d.s = <<>> THEN DOMAIN S
    ELSE {i \in DOMAIN S : Lower(S[i].difficulty) = Lower(d.s)}

MinOf(a, b) == IF a <= b THEN a ELSE b

Min(S) == CHOOSE x \in S : \A y \in S : x <= y

\* greedy \s*, \d*, \** from position i: the first position not in the class
SkipSpaces(s, i) ==
    LET stop == {j \in i..Len(s) : ~IsSpace(s[j])}
    IN  IF stop = {} THEN Len(s) + 1 ELSE Min(stop)
SkipDigits(s, i) ==
    LET stop == {j \in i..Len(s) : ~IsDigit(s[j])}
    IN  IF stop = {} THEN Len(s) + 1 ELSE Min(stop)
SkipStars(s, i) ==
    LET stop == {j \in i..Len(s) : s[j] # "*"}
    IN  IF stop = {} THEN Len(s) + 1 ELSE Min(stop)

\* a literal of the pattern (given in lower case) at position i, ignoring case
MatchLiteral(s, i, lit) ==
    /\ i >= 1
    /\ i + Len(lit) - 1 <= Len(s)
    /\ \A k \in 1..Len(lit) : LowerChar(s[i + k - 1]) = lit[k]

litQuestion      == <<"q", "u", "e", "s", "t", "i", "o", "n">>
litDifficulty    == <<"d", "i", "f", "f", "i", "c", "u", "l", "t", "y", ":">>
litCorrectAnswer == <<"c", "o", "r", "r", "e", "c", "t", " ", "a", "n", "s", "w", "e", "r", ":">>

\* r"Question\s*\d*:" at position i
MatchMarker(s, i) ==
    IF MatchLiteral(s, i, litQuestion)
    THEN LET j == SkipDigits(s, SkipSpaces(s, i + Len(litQuestion)))
         IN  IF j <= Len(s) /\ s[j] = ":" THEN j + 1 ELSE 0
    ELSE 0

\* re.search(r"Question\s*\d*:", s): start of the first match, 0 for None
SearchMarker(s) ==
    LET hits == {i \in 1..Len(s) : MatchMarker(s, i) # 0}
    IN  IF hits = {} THEN 0 ELSE Min(hits)

\* re.split(r"Question\s*\d*:\s*", s)
RECURSIVE SplitMarker(_)
SplitMarker(s) ==
    LET i == SearchMarker(s)
    IN  IF i = 0 THEN <<s>>
        ELSE <<SubSeq(s, 1, i - 1)>>
                 \o SplitMarker(Drop(s, SkipSpaces(s, MatchMarker(s, i))))

\* block.split("\n")
RECURSIVE SplitLines(_)
SplitLines(s) ==
    LET nl == {i \in DOMAIN s : s[i] = "\n"}
    IN  IF nl = {} THEN <<s>>
        ELSE <<SubSeq(s, 1, Min(nl) - 1)>> \o SplitLines(Drop(s, Min(nl) + 1))

\* the stripped, non-empty lines of a block, in order
RECURSIVE NonBlankLines(_)
NonBlankLines(lines) ==
    IF lines = <<>> THEN <<>>
    ELSE LET line == Strip(Head(lines))
         IN  (IF line # <<>> THEN <<line>> ELSE <<>>) \o NonBlankLines(Tail(lines))

IsOptionLetter(c) == UpperChar(c) \in {"A", "B", "C", "D"}

\* r"^\s*[A-D]\)\s*(.*)": start of group 1, 0 for no match
option_match(line) ==
    LET i == SkipSpaces(line, 1)
    IN  IF i + 1 <= Len(line) /\ IsOptionLetter(line[i]) /\ line[i + 1] = ")"
        THEN SkipSpaces(line, i + 2) ELSE 0

\* r"^\s*\**Difficulty:\s*\**\s*(.*)": start of group 1, 0 for no match
difficulty_match(line) ==
    LET i == SkipStars(line, SkipSpaces(line, 1))
    IN  IF MatchLiteral(line, i, litDifficulty)
        THEN SkipSpaces(line, SkipStars(line, SkipSpaces(line, i + Len(litDifficulty))))
        ELSE 0

\* r"^\s*\**Correct Answer:\s*\**\s*([A-D])": position of group 1, 0 for no match
answer_match(line) ==
    LET i == SkipStars(line, SkipSpaces(line, 1))
    IN  IF MatchLiteral(line, i, litCorrectAnswer)
        THEN LET j == SkipSpaces(line, SkipStars(line, SkipSpaces(line, i + Len(litCorrectAnswer))))
             IN  IF j <= Len(line) /\ IsOptionLetter(line[j]) THEN j ELSE 0
        ELSE 0

\* options[option_key] = ...: a later line with the same key overwrites
SetKeyFirstWins(m, k, v) ==
    IF k \in DOMAIN m THEN m ELSE [x \in DOMAIN m \cup {k} |-> IF x = k THEN v ELSE m[x]]
SetKey(m, k, v) == [x \in DOMAIN m \cup {k} |-> IF x = k THEN v ELSE m[x]]

\* difficulty = difficulty_match.group(1).strip().lower()
DifficultyOf(line) == Lower(Strip(Drop(line, difficulty_match(line))))

\* one pass of "for line in processed_lines" over acc = (options, correct_answer, difficulty)
ScanLine(acc, line) ==
    IF option_match(line) # 0
    THEN [acc EXCEPT !.options =
              SetKey(@, <<UpperChar(Strip(line)[1])>>, Strip(Drop(line, option_match(line))))]
    ELSE IF difficulty_match(line) # 0
    THEN [acc EXCEPT !.difficulty = DifficultyOf(line)]
    ELSE IF answer_match(line) # 0
    THEN [acc EXCEPT !.correct_answer = Upper(Strip(<<line[answer_match(line)]>>))]
    ELSE acc

RECURSIVE ScanLines(_, _)
ScanLines(acc, lines) ==
    IF lines = <<>> THEN acc ELSE ScanLines(ScanLine(acc, Head(lines)), Tail(lines))

\* question_data of a block whose question_text is not empty
question_data(lines) ==
    LET acc == ScanLines([options |-> <<>>, correct_answer |-> <<>>, difficulty |-> <<>>],
                         Tail(lines))
    IN  [question   |-> Str(Head(lines)),
         options    |-> Dict([k \in DOMAIN acc.options |-> Str(acc.options[k])]),
         answer     |-> Str(acc.correct_answer),
         difficulty |-> Str(acc.difficulty)]

ExceptionClasses == {"ValidationError", "TypeError", "AttributeError", "JSONDecodeError"}

\* "except Exception as e" of the block loop: every error of Question is caught
ParserCatchesNothing(e) == FALSE
ParserCatches(e) == e \in ExceptionClasses

(***************************************************************************)
(* Parser run.  The input text is rendered from a sequence of block        *)
(* descriptors (and a preamble), so that what each line of the text is     *)
(* meant to be is known independently of the parser.                       *)
(***************************************************************************)
MaxBlocks == 2

Letters == {"A", "B", "C", "D"}
Digits == <<"1", "2", "3", "4", "5", "6", "7", "8", "9">>

txtSure       == <<"S", "u", "r", "e", "!", "\n">>
txtNoMarker   == <<"Q", "u", "e", "s", "t", "i", "o", "n", "s", "\n", "A", ")", " ", "3", "\n",
                   "C", "o", "r", "r", "e", "c", "t", " ", "A", "n", "s", "w", "e", "r", ":", " ", "A", "\n">>
txtMarker0    == <<"Q", "u", "e", "s", "t", "i", "o", "n", " ", "1", ":", " ">>
txtMarker1    == <<"q", "u", "e", "s", "t", "i", "o", "n", ":", "\n", "\n", " ", " ">>
txtMarker2    == <<"Q", "U", "E", "S", "T", "I", "O", "N", "\n", "2", "3", ":", " ", "\n">>
txtOptA       == <<"A", ")", " ", "3", "\n">>
txtOptB       == <<" ", "b", ")", " ", " ", "4", " ", "\n">>
txtOptC       == <<"C", ")", "5", "\n">>
txtOptD       == <<"D", ")", " ", "6", "\r", "\n">>
txtOptDup     == <<"a", ")", " ", "9", "\n">>
txtDiffEasy   == <<"D", "i", "f", "f", "i", "c", "u", "l", "t", "y", ":", " ", "E", "a", "s", "y", "\n">>
txtDiffHard   == <<"*", "*", "D", "i", "f", "f", "i", "c", "u", "l", "t", "y", ":", "*", "*", " ", "h", "a", "r", "d", "\n">>
txtDiffEmpty  == <<"D", "I", "F", "F", "I", "C", "U", "L", "T", "Y", ":", "\n">>
txtAnsB       == <<"C", "o", "r", "r", "e", "c", "t", " ", "A", "n", "s", "w", "e", "r", ":", " ", "B", "\n">>
txtAnsC       == <<"*", "*", "C", "o", "r", "r", "e", "c", "t", " ", "a", "n", "s", "w", "e", "r", ":", "*", "*", " ", "c", ")", "\n">>
txtAnsE       == <<"C", "o", "r", "r", "e", "c", "t", " ", "A", "n", "s", "w", "e", "r", ":", " ", "E", "\n">>
txtNote       == <<"n", "o", "t", "e", "\n">>

\* a block descriptor: style 0, 1: two spellings of the marker; style 2: a marker with
\* nothing after it.  opts: the letters with an option line.  dup: a second, later
\* option line for A.  diff, ans: which difficulty and correct-answer lines there are.
BaseBlock == [style |-> 0, opts |-> Letters, dup |-> FALSE, diff |-> 1, ans |-> 1]

BlockPool ==
    {[BaseBlock EXCEPT !.opts = o] : o \in SUBSET Letters}
        \cup {[BaseBlock EXCEPT !.opts = o, !.dup = TRUE] : o \in {Letters, Letters \ {"A"}}}
        \cup {[BaseBlock EXCEPT !.diff = x] : x \in 0..4}
        \cup {[BaseBlock EXCEPT !.ans = x] : x \in 0..4}
        \cup {[BaseBlock EXCEPT !.style = x] : x \in 0..2}

RenderBlock(b, i) ==
    IF b.style = 2 THEN txtMarker2
    ELSE (IF b.style = 0 THEN txtMarker0 ELSE txtMarker1)
         \o <<"Q", Digits[i], "\n">>
         \o (IF b.diff \in {1, 3, 4} THEN txtDiffEasy ELSE <<>>)
         \o (IF b.diff \in {2, 3} THEN txtDiffHard ELSE <<>>)
         \o (IF "A" \in b.opts THEN txtOptA ELSE <<>>)
         \o (IF "B" \in b.opts THEN txtOptB ELSE <<>>)
         \o (IF b.style = 1 THEN txtNote ELSE <<>>)
         \o (IF b.diff = 4 THEN txtDiffEmpty ELSE <<>>)
         \o (IF "C" \in b.opts THEN txtOptC ELSE <<>>)
         \o (IF b.ans \in {1, 3} THEN txtAnsB ELSE <<>>)
         \o (IF "D" \in b.opts THEN txtOptD ELSE <<>>)
         \o (IF b.dup THEN txtOptDup ELSE <<>>)
         \o (IF b.ans \in {2, 3} THEN txtAnsC ELSE <<>>)
         \o (IF b.ans = 4 THEN txtAnsE ELSE <<>>)

RECURSIVE RenderBlocks(_, _)
RenderBlocks(bs, i) ==
    IF i > Len(bs) THEN <<>> ELSE RenderBlock(bs[i], i) \o RenderBlocks(bs, i + 1)

Render(s) ==
    (IF s.pre = 1 THEN txtSure ELSE IF s.pre = 2 THEN txtNoMarker ELSE <<>>)
        \o RenderBlocks(s.blocks, 1)

\* the blocks every text may repeat: a well-formed one, one with an option letter
\* missing, one with nothing after the marker
CommonBlocks ==
    {BaseBlock, [BaseBlock EXCEPT !.opts = Letters \ {"C"}], [BaseBlock EXCEPT !.style = 2]}

\* texts of at most MaxBlocks blocks, at most one of them outside CommonBlocks
Sources ==
    {[pre |-> p, blocks |-> bs] :
        p \in 0..2,
        bs \in {b \in UNION {[1..n -> BlockPool] : n \in 0..MaxBlocks} :
                   Cardinality({i \in DOMAIN b : b[i] \notin CommonBlocks}) <= 1}}

InitParser ==
    /\ pc = "parse"
    /\ src \in Sources
    /\ text = Render(src)
    /\ question_blocks = <<>> /\ bi = 0 /\ questions = <<>>
    /\ cand = NoCand /\ verdict = "none"
    /\ all_quiz_questions = <<>> /\ num_questions = 0 /\ difficulty = Absent
    /\ selected = <<>>
    /\ file = NoFile /\ loaded_questions = <<>>
    /\ response = NoResponse /\ request = NoRequest

\* lines 118-130: search for the first marker, cut the text there, split it
ParseSplit ==
    /\ pc = "parse"
    /\ IF SearchMarker(text) # 0
       THEN /\ text' = Drop(text, SearchMarker(text))
            /\ question_blocks' = SplitMarker(text')
            /\ bi' = 1
            /\ pc' = "blocks"
       ELSE /\ pc' = "parsed"
            /\ UNCHANGED <<text, question_blocks, bi>>
    /\ questions' = <<>>
    /\ UNCHANGED <<src, validatorVars, selectorVars, serviceVars>>

\* lines 132-189: one iteration of "for block in question_blocks"
ParseBlock ==
    /\ pc = "blocks"
    /\ bi <= Len(question_blocks)
    /\ LET block == Strip(question_blocks[bi])
           lines == NonBlankLines(SplitLines(block))
       IN  IF block = <<>> \/ lines = <<>>
           THEN UNCHANGED <<pc, questions>>
           ELSE IF QuestionAccepts(question_data(lines))
           THEN /\ questions' = Append(questions, model_dump(question_data(lines)))
                /\ UNCHANGED pc
           ELSE /\ pc' = IF ParserCatches("ValidationError") THEN pc ELSE "raised"
                /\ UNCHANGED questions
    /\ bi' = bi + 1
    /\ UNCHANGED <<src, text, question_blocks, validatorVars, selectorVars, serviceVars>>

\* line 191: return questions
ParseReturn ==
    /\ pc = "blocks"
    /\ bi > Len(question_blocks)
    /\ pc' = "parsed"
    /\ UNCHANGED <<parserVars, validatorVars, selectorVars, serviceVars>>

NextParser == ParseSplit \/ ParseBlock \/ ParseReturn

SpecParser == InitParser /\ [][NextParser]_vars

(***************************************************************************)
(* What the descriptors say the text holds.                                *)
(***************************************************************************)
\* the letters of a block that have no option line
MissingLetters(b) == Letters \ (b.opts \cup (IF b.dup THEN {"A"} ELSE {}))

\* the text of the last option line of each letter
LastOptionTexts(b) ==
    [k \in {<<l>> : l \in Letters \ MissingLetters(b)} |->
        IF k = kA THEN (IF b.dup THEN <<"9">> ELSE <<"3">>)
        ELSE IF k = kB THEN <<"4">>
        ELSE IF k = kC THEN <<"5">>
        ELSE <<"6">>]

\* the text of the last difficulty line, as written
LastDifficultyText(b) ==
    IF b.diff = 1 THEN <<"E", "a", "s", "y">>
    ELSE IF b.diff \in {2, 3} THEN <<"h", "a", "r", "d">>
    ELSE <<>>

\* the letter of the last correct-answer line, as a key
LastAnswerLetter(b) ==
    IF b.ans = 1 THEN kB ELSE IF b.ans \in {2, 3} THEN kC ELSE <<>>

\* the validity rule as the specification words it, on a record of strings
ClaimedValid(c) ==
    /\ DOMAIN c.options = {kA, kB, kC, kD}
    /\ \A k \in DOMAIN c.options : Strip(c.options[k]) # <<>>
    /\ c.answer \in DOMAIN c.options
    /\ Strip(c.question) # <<>>
    /\ c.difficulty # <<>>

CandidateAsWritten(b, i) ==
    [question   |-> <<"Q", Digits[i]>>,
     options    |-> LastOptionTexts(b),
     answer     |-> LastAnswerLetter(b),
     difficulty |-> LastDifficultyText(b)]

CandidateLowered(b, i) ==
    [CandidateAsWritten(b, i) EXCEPT !.difficulty = Lower(@)]

RECURSIVE ExpectedAsWritten(_, _)
ExpectedAsWritten(bs, i) ==
    IF i > Len(bs) THEN <<>>
    ELSE (IF bs[i].style # 2 /\ ClaimedValid(CandidateAsWritten(bs[i], i))
          THEN <<CandidateAsWritten(bs[i], i)>> ELSE <<>>)
         \o ExpectedAsWritten(bs, i + 1)

RECURSIVE ExpectedLowered(_, _)
ExpectedLowered(bs, i) ==
    IF i > Len(bs) THEN <<>>
    ELSE (IF bs[i].style # 2 /\ ClaimedValid(CandidateLowered(bs[i], i))
          THEN <<CandidateLowered(bs[i], i)>> ELSE <<>>)
         \o ExpectedLowered(bs, i + 1)

\* block i of the text produced a question
Produced(i) == \E k \in DOMAIN questions : questions[k].question = <<"Q", Digits[i]>>

(***************************************************************************)
(* C2: parse_questions_from_text never raises; a block with one, two or    *)
(* three of the option letters A-D missing produces no question, and every *)
(* later block of the same text that validates is still returned.          *)
(***************************************************************************)
C2_MalformedBlockDroppedRestParsed ==
    /\ pc # "raised"
    /\ pc = "parsed" =>
         \A i \in DOMAIN src.blocks :
            (src.blocks[i].style # 2 /\ Cardinality(MissingLetters(src.blocks[i])) \in 1..3)
            => /\ ~Produced(i)
               /\ \A j \in DOMAIN src.blocks :
                     (j > i /\ src.blocks[j].style # 2
                            /\ ClaimedValid(CandidateLowered(src.blocks[j], j)))
                     => Produced(j)

C2_Witness ==
    /\ pc = "parsed"
    /\ \E i, j \in DOMAIN src.blocks :
          /\ i < j
          /\ src.blocks[i].style # 2
          /\ Cardinality(MissingLetters(src.blocks[i])) = 3
          /\ ~Produced(i)
          /\ Produced(j)

QuestionVals   == {Str(<<>>), Str(<<" ">>), Str(<<"Q">>), Str(<<" ", "Q">>), NonStr, Absent}
OptionTexts    == {Str(<<"x">>), Str(<<" ">>), Str(<<>>), NonStr}
OptionKeys     == {kA, kB, kC, kD, kE}
OptionMaps     ==
    {[k \in K |-> Str(<<"x">>)] : K \in SUBSET OptionKeys}
        \cup [valid_keys -> OptionTexts]
OptionsVals    == {Dict(m) : m \in OptionMaps} \cup {NonDict, NoDict}
AnswerVals     == {Str(<<>>), Str(<<" ">>), Str(kA), Str(kD), Str(<<"a">>), Str(kE),
                   Str(<<"A", "B">>), NonStr}
DifficultyVals == {Str(<<>>), Str(<<" ">>), Str(<<"e">>), NonStr}

Candidates ==
    [question : QuestionVals, options : OptionsVals,
     answer : AnswerVals, difficulty : DifficultyVals]

InitValidator ==
    /\ pc = "validate"
    /\ cand \in Candidates
    /\ verdict = "none"
    /\ src = <<>> /\ text = <<>> /\ question_blocks = <<>> /\ bi = 0 /\ questions = <<>>
    /\ all_quiz_questions = <<>> /\ num_questions = 0 /\ difficulty = Absent
    /\ selected = <<>>
    /\ file = NoFile /\ loaded_questions = <<>>
    /\ response = NoResponse /\ request = NoRequest

ValidateQuestion ==
    /\ pc = "validate"
    /\ verdict' = IF QuestionAccepts(cand) THEN "accepted" ELSE "rejected"
    /\ pc' = "validated"
    /\ UNCHANGED <<cand, parserVars, selectorVars, serviceVars>>

NextValidator == ValidateQuestion

SpecValidator == InitValidator /\ [][NextValidator]_vars

\* every field of the record has the declared type
AllStrings(c) ==
    /\ c.question.t = "str" /\ c.answer.t = "str" /\ c.difficulty.t = "str"
    /\ c.options.t = "dict"
    /\ \A k \in DOMAIN c.options.m : c.options.m[k].t = "str"

(***************************************************************************)
(* C1: the validator accepts a record if and only if the options map has   *)
(* exactly the keys A, B, C, D, every option value is non-blank after      *)
(* trimming, answer is a key of the options map, question is non-blank     *)
(* after trimming and difficulty is not empty.                             *)
(***************************************************************************)
C1_AcceptsIffClaimedValid ==
    pc = "validated" =>
        (verdict = "accepted" <=> (AllStrings(cand) /\ ClaimedValid(model_dump(cand))))

(***************************************************************************)
(* The service: load_all_questions_from_json at import, then the two       *)
(* request handlers.                                                       *)
(***************************************************************************)
MaxFile == 3

\* an element of the JSON array: an object with the four fields, or a number
Obj(q, o, a, d) ==
    [kind |-> "object", question |-> q, options |-> o, answer |-> a, difficulty |-> d]
Num == [kind |-> "number", question |-> Absent, options |-> NoDict, answer |-> Absent,
        difficulty |-> Absent]

GoodDict == Dict([k \in valid_keys |-> Str(<<"x">>)])

ElementPool ==
    {Obj(Str(<<"Q", "1">>), GoodDict, Str(kA), Str(txtEasy)),
     Obj(Str(<<"Q", "2">>), GoodDict, Str(kB), Str(txtHard)),
     Obj(Str(<<" ">>), GoodDict, Str(kD), Str(txtEasy)),
     Obj(Str(<<"Q", "4">>), GoodDict, Str(<<" ">>), Str(txtEasy)),
     Obj(Str(<<"Q", "5">>), Dict([k \in {kA, kB, kC} |-> Str(<<"x">>)]), Str(kA), Str(txtHard)),
     Obj(Absent, GoodDict, Str(kA), Str(<<>>)),
     Obj(NonStr, GoodDict, Str(kA), Str(txtEasy)),
     Num}

\* the store file: absent, not JSON, a JSON number, or a JSON array
Files ==
    {[kind |-> k, items |-> <<>>] : k \in {"missing", "malformed", "number"}}
        \cup {[kind |-> "array", items |-> it] :
                 it \in UNION {[1..n -> ElementPool] : n \in 0..MaxFile}}

\* lines 206-209: the warning's f-string evaluates question_data.get('question', 'N/A')[:50];
\* it raises when question_data has no get (not a dict) or the value cannot be sliced
LogLineRaises(e) == e.kind # "object" \/ e.question.t = "int"

\* Question of question_data: raises TypeError for a non-mapping, ValidationError for
\* a mapping that fails
ElementAccepted(e) == e.kind = "object" /\ QuestionAccepts(e)

\* "except json.JSONDecodeError" of line 211
LoadCatchesNothing(e) == FALSE
LoadCatches(e) == e = "JSONDecodeError"

\* the loop of lines 201-210 over the elements from position i on
RECURSIVE LoadItems(_, _, _)
LoadItems(items, i, acc) ==
    IF i > Len(items) THEN [raised |-> FALSE, value |-> acc]
    ELSE IF ElementAccepted(items[i])
    THEN LoadItems(items, i + 1, Append(acc, model_dump(items[i])))
    ELSE IF LogLineRaises(items[i]) THEN [raised |-> TRUE, value |-> acc]
    ELSE LoadItems(items, i + 1, acc)

load_all_questions_from_json(f) ==
    IF f.kind = "missing" THEN [raised |-> FALSE, value |-> <<>>]
    ELSE IF f.kind = "malformed"
    THEN [raised |-> ~LoadCatches("JSONDecodeError"), value |-> <<>>]
    ELSE IF f.kind = "number"
    THEN [raised |-> ~LoadCatches("TypeError"), value |-> <<>>]
    ELSE LoadItems(f.items, 1, <<>>)

\* a stored question as a record for Question (response_model=Question)
AsCandidate(q) ==
    [question   |-> Str(q.question),
     options    |-> Dict([k \in DOMAIN q.options |-> Str(q.options[k])]),
     answer     |-> Str(q.answer),
     difficulty |-> Str(q.difficulty)]

\* difficulty: str = Query(None, min_length=1)
QueryAccepted(d) == d = Absent \/ (d.t = "str" /\ Len(d.s) >= 1)

\* get_questions, for the list sel returned by select_questions
get_questions(store, d, sel) ==
    IF sel = <<>>
    THEN [NoResponse EXCEPT !.status = 404, !.criteria = d]
    ELSE IF QuestionAccepts(AsCandidate(store[sel[1]]))
    THEN [NoResponse EXCEPT !.status = 200, !.body = store[sel[1]]]
    ELSE [NoResponse EXCEPT !.status = 500]

\* class UserAnswer: question_index ge=0; user_option one character, A-D in either case
UserAnswerAccepted(idx, opt) ==
    /\ idx >= 0
    /\ Len(opt) >= 1 /\ Len(opt) <= 1
    /\ Upper(opt) \in {kA, kB, kC, kD}

\* line 283
InvalidIndexOffByOne(idx, L) == idx < 0 \/ idx > L
InvalidIndex(idx, L) == idx < 0 \/ idx >= L

\* check_user_answer, for the validated request (idx, opt), opt already upper-cased
check_user_answer(store, idx, opt) ==
    IF InvalidIndex(idx, Len(store))
    THEN [NoResponse EXCEPT !.status = 400]
    ELSE IF idx + 1 \notin DOMAIN store
    THEN [NoResponse EXCEPT !.status = 500, !.looked_up = {idx}]
    ELSE LET correct_answer == Upper(Strip(store[idx + 1].answer))
         IN  IF correct_answer = <<>>
             THEN [NoResponse EXCEPT !.status = 500, !.looked_up = {idx}]
             ELSE [NoResponse EXCEPT !.status = 200,
                                     !.user_answer = opt,
                                     !.is_correct = (opt = correct_answer),
                                     !.correct_answer = correct_answer,
                                     !.looked_up = {idx}]

UserOptions == {kA, <<"b">>, <<"d">>, kE}

Init ==
    /\ pc = "boot"
    /\ file \in Files
    /\ loaded_questions = <<>>
    /\ response = NoResponse /\ request = NoRequest
    /\ cand = NoCand /\ verdict = "none"
    /\ src = <<>> /\ text = <<>> /\ question_blocks = <<>> /\ bi = 0 /\ questions = <<>>
    /\ all_quiz_questions = <<>> /\ num_questions = 0 /\ difficulty = Absent
    /\ selected = <<>>

\* line 247: loaded_questions = load_all_questions_from_json()
LoadStore ==
    /\ pc = "boot"
    /\ LET r == load_all_questions_from_json(file)
       IN  IF r.raised
           THEN pc' = "crashed" /\ UNCHANGED loaded_questions
           ELSE pc' = "serving" /\ loaded_questions' = r.value
    /\ UNCHANGED <<file, response, request, validatorVars, parserVars, selectorVars>>

\* GET /questions/
GetQuestions ==
    /\ pc = "serving"
    /\ \E d \in DifficultyArgs :
          /\ request' = [NoRequest EXCEPT !.kind = "get", !.difficulty = d]
          /\ IF ~QueryAccepted(d)
             THEN /\ response' = [NoResponse EXCEPT !.status = 422]
                  /\ UNCHANGED loaded_questions
             ELSE \E sel \in select_questions(loaded_questions, 1, d) :
                     /\ response' = get_questions(loaded_questions, d, sel)
                     /\ loaded_questions' = CollectionAfterSelect(loaded_questions, sel)
    /\ UNCHANGED <<pc, file, validatorVars, parserVars, selectorVars>>

\* POST /answer/
CheckUserAnswer ==
    /\ pc = "serving"
    /\ \E idx \in -1..(MaxFile + 1), opt \in UserOptions :
          /\ request' = [NoRequest EXCEPT !.kind = "post", !.question_index = idx,
                                          !.user_option = opt]
          /\ response' = IF UserAnswerAccepted(idx, opt)
                         THEN check_user_answer(loaded_questions, idx, Upper(opt))
                         ELSE [NoResponse EXCEPT !.status = 422]
    /\ UNCHANGED <<pc, file, loaded_questions, validatorVars, parserVars, selectorVars>>

Next == LoadStore \/ GetQuestions \/ CheckUserAnswer

Spec == Init /\ [][Next]_vars

\* the elements of the array that pass Question validation, in file order
RECURSIVE ValidInOrder(_)
ValidInOrder(items) ==
    IF items = <<>> THEN <<>>
    ELSE (IF Head(items).kind = "object" /\ QuestionAccepts(Head(items))
          THEN <<model_dump(Head(items))>> ELSE <<>>)
         \o ValidInOrder(Tail(items))

(***************************************************************************)
(* C5: an accepted answer-check request with question_index >= L gets the  *)
(* invalid-index (400) outcome and looks up no element; with               *)
(* question_index < L it gets is_correct true exactly when the upper-cased *)
(* user_option equals the stored answer, and correct_answer equal to the   *)
(* stored answer.                                                          *)
(***************************************************************************)
C5_AnswerCheckOutcome ==
    (/\ pc = "serving"
     /\ request.kind = "post"
     /\ UserAnswerAccepted(request.question_index, request.user_option))
    => IF request.question_index >= Len(loaded_questions)
       THEN response.status = 400 /\ response.looked_up = {}
       ELSE LET stored == loaded_questions[request.question_index + 1].answer
            IN  /\ response.status = 200
                /\ response.is_correct = (Upper(request.user_option) = stored)
                /\ response.correct_answer = stored

C5_Witness ==
    /\ pc = "serving"
    /\ request.kind = "post"
    /\ request.question_index = 0
    /\ request.user_option = <<"b">>
    /\ loaded_questions # <<>>
    /\ loaded_questions[1].answer = kB
    /\ response.status = 200
    /\ response.is_correct
    /\ response.correct_answer = kB

(***************************************************************************)
(* C6: GET /questions/ answers not found (404), naming d, if and only if   *)
(* no question of the collection has difficulty d case-insensitively (the  *)
(* collection is empty when d is absent); otherwise it returns an element  *)
(* of the collection whose difficulty matches d.                           *)
(***************************************************************************)
C6_NotFoundIffNoMatch ==
    (/\ pc = "serving"
     /\ request.kind = "get"
     /\ QueryAccepted(request.difficulty))
    => LET match == ClaimedFilter(loaded_questions, request.difficulty)
       IN  /\ response.status = 404 <=> match = {}
           /\ response.status = 404 => response.criteria = request.difficulty
           /\ match # {} =>
                 /\ response.status = 200
                 /\ \E i \in match : response.body = loaded_questions[i]

C6_Witness ==
    /\ pc = "serving"
    /\ request.kind = "get"
    /\ request.difficulty = Str(txtMedium)
    /\ Len(loaded_questions) >= 2
    /\ response.status = 404
    /\ response.criteria = Str(txtMedium)

(***************************************************************************)
(* C7: when the store file holds a JSON array, the load does not raise and *)
(* returns exactly the elements that pass Question validation, in file     *)
(* order, whatever the shape of the elements that fail.                    *)
(***************************************************************************)
C7_LoadKeepsValidInOrder ==
    (pc # "boot" /\ file.kind = "array")
    => (pc = "serving" /\ loaded_questions = ValidInOrder(file.items))

C9_CollectionUnchangedByRequests ==
    [][pc = "serving" => loaded_questions' = loaded_questions]_vars

C9_Witness ==
    /\ pc = "serving"
    /\ request.kind = "get"
    /\ request.difficulty = Absent
    /\ response.status = 200
    /\ Len(loaded_questions) >= 2
    /\ response.body = loaded_questions[2]

(***************************************************************************)
(* C10: for a collection produced by the load and an accepted answer-check *)
(* request the internal-condition (500) outcome is never reached: every    *)
(* stored answer is one of A, B, C, D, non-empty after trimming and        *)
(* upper-casing.                                                           *)
(***************************************************************************)
C10_NoInternalCondition ==
    /\ pc = "serving" =>
          \A i \in DOMAIN loaded_questions :
             /\ loaded_questions[i].answer \in valid_keys
             /\ Upper(Strip(loaded_questions[i].answer)) # <<>>
    /\ request.kind = "post" => response.status # 500

C10_Witness ==
    /\ pc = "serving"
    /\ request.kind = "post"
    /\ \E i \in DOMAIN file.items :
          file.items[i].kind = "object" /\ file.items[i].answer = Str(<<" ">>)
    /\ Len(loaded_questions) >= 2
    /\ request.question_index = 1
    /\ response.status = 200

====
